---- MODULE Spec2Model ----
(***************************************************************************)
(* Collatz window/funnel certificate toolchain (tools/certificate):        *)
(*   windows.py    window generator  (patterns -> window rows)             *)
(*   funnels.py    funnel generator  (window residues -> funnel rows)      *)
(*   validator.py  independent validator of both tables, summary           *)
(* Python integers are unbounded; every quantity below stays far inside    *)
(* TLC's integer range for the bounds chosen, so no width is modelled.     *)
(***************************************************************************)
EXTENDS Integers, Sequences, FiniteSets, TLC

VARIABLES
    pc,              \* position of the running stage
    config,          \* CertificateConfig fields used by the stage
    pattern,         \* the pattern handed to record_from_pattern
    solved,          \* <<r_mod, K>> returned by solve_residue (<<>> before)
    record,          \* <<>> (None) or <<WindowRecord>>
    projected,       \* list returned by project_residues
    windows_csv,     \* rows of windows.csv (strings as character sequences)
    stats_json,      \* [exists, stats] : windows.stats.json
    funnels_csv,     \* [exists, rows] : funnels.csv
    hist_json,       \* [exists, hist] : funnels.hist.json
    summary_json,    \* [exists, summary] : summary.json
    window_set,      \* funnels.main: the set read by read_window_residues
    funnel_out,      \* funnels.main: [raised, residue, funnels, histogram]
    v,               \* validator locals (window_residues, thresholds, ...)
    verror,          \* validator: <<>> or <<[file, row, kind]>>
    examined,        \* history: the rows the validator has examined, in order
    tampered,        \* history: whether a table was edited after generation
    call,            \* enumerate_patterns: [length, total, max_part]
    frames,          \* enumerate_patterns: the suspended backtrack calls
    yielded,         \* enumerate_patterns: the lists yielded so far, in order
    descended        \* history: the prefixes backtrack recursed into

vars == <<pc, config, pattern, solved, record, projected, windows_csv,
          stats_json, funnels_csv, hist_json, summary_json, window_set, funnel_out,
          v, verror, examined, tampered, call, frames, yielded, descended>>

---------------------------------------------------------------------------
(* Bounds of the model *)

\* longest pattern drawn
MaxJ == 3
\* largest part s_t of a pattern drawn
MaxVal == 4
\* largest cumulative valuation K of a pattern drawn
MaxK == 7
\* largest modulus_power drawn for the window stage
MaxM == 5
\* largest modulus_power drawn for the funnel stage
MaxFunM == 4
\* largest funnel_depth drawn
MaxDepth == 3
\* largest number of window residues drawn for the funnel stage
MaxWin == 4
\* largest modulus_power drawn for a run of the three stages
MaxPipeM == 3
\* largest max_window_length drawn for a run of the three stages
MaxPipeJ == 2
\* largest delta_k drawn for a run of the three stages
MaxDeltaK == 1
\* largest length, total and max_part drawn for enumerate_patterns
MaxEnumLength == 3
MaxEnumTotal == 10
MaxEnumPart == 3

---------------------------------------------------------------------------
(* Integers, text and exact rationals *)

Max(a, b) == IF a >= b THEN a ELSE b
Min(a, b) == IF a <= b THEN a ELSE b
Abs(n) == IF n < 0 THEN -n ELSE n

\* 1 << n
Shl1(n) == 2 ^ n

RECURSIVE Gcd(_, _)
Gcd(a, b) == IF b = 0 THEN a ELSE Gcd(b, a % b)

\* fractions.Fraction(n, d) of two integers: lowest terms, positive denominator
Fraction(n, d) ==
    LET g == Gcd(Abs(n), Abs(d))
        s == IF d < 0 THEN -1 ELSE 1
    IN  [num |-> (s * n) \div g, den |-> (s * d) \div g]

\* Fraction arithmetic used by the code: 1 - A, Fraction(B, 1 - A), >=, *
FracOneMinus(a) == Fraction(a.den - a.num, a.den)
FracDiv(a, b) == Fraction(a.num * b.den, a.den * b.num)
FracGE(a, b) == a.num * b.den >= b.num * a.den
FracGEOne(a) == a.num >= a.den

DigitChars == <<"0", "1", "2", "3", "4", "5", "6", "7", "8", "9">>

RECURSIVE StrNat(_)
StrNat(n) ==
    IF n < 10 THEN <<DigitChars[n + 1]>>
    ELSE Append(StrNat(n \div 10), DigitChars[(n % 10) + 1])

\* str(n) of an int
PyStr(n) == IF n < 0 THEN <<"-">> \o StrNat(-n) ELSE StrNat(n)

DigitVal(c) == CHOOSE d \in 0..9 : DigitChars[d + 1] = c

RECURSIVE IntNat(_)
IntNat(s) ==
    IF s = <<>> THEN 0
    ELSE IntNat(SubSeq(s, 1, Len(s) - 1)) * 10 + DigitVal(s[Len(s)])

\* int(s) of a decimal string
PyInt(s) == IF s[1] = "-" THEN -IntNat(Tail(s)) ELSE IntNat(s)

\* json.dumps(list(pattern)) / json.loads(s_vec): the list structure is kept,
\* every element goes through its decimal text
json_dumps(p) == [i \in 1..Len(p) |-> PyStr(p[i])]
json_loads(s) == [i \in 1..Len(s) |-> PyInt(s[i])]

format_fraction_no_slash(value) ==
    IF value.den = 1 THEN PyStr(value.num)
    ELSE PyStr(value.num) \o PyStr(value.den)

format_fraction(value) ==
    IF value.den = 1 THEN PyStr(value.num)
    ELSE PyStr(value.num) \o <<"/">> \o PyStr(value.den)

parse_fraction(value) ==
    IF \E i \in 1..Len(value) : value[i] = "/"
    THEN LET i == CHOOSE k \in 1..Len(value) :
                     /\ value[k] = "/"
                     /\ \A m \in 1..(k - 1) : value[m] # "/"
         IN  Fraction(PyInt(SubSeq(value, 1, i - 1)),
                      PyInt(SubSeq(value, i + 1, Len(value))))
    ELSE Fraction(PyInt(value), 1)

\* pow(base, -e, modulus), e >= 1: the e-th power of the inverse of base
InvMod(base, modulus) ==
    CHOOSE x \in 0..(modulus - 1) : (base * x) % modulus = 1 % modulus

RECURSIVE PowMod(_, _, _)
PowMod(base, e, modulus) ==
    IF e = 0 THEN 1 % modulus
    ELSE (PowMod(base, e - 1, modulus) * (base % modulus)) % modulus

PowNegMod(base, e, modulus) == PowMod(InvMod(base, modulus), e, modulus)

RECURSIVE SumSeq(_)
SumSeq(s) == IF s = <<>> THEN 0 ELSE s[1] + SumSeq(Tail(s))

---------------------------------------------------------------------------
(* windows.py *)

\* the patterns drawn: 1..MaxJ parts, each in 1..MaxVal, sum at most MaxK
Patterns ==
    { p \in UNION { [1..n -> 1..MaxVal] : n \in 1..MaxJ } : SumSeq(p) <= MaxK }

\* one iteration of the loop of solve_residue; idx is enumerate's index (from 0)
solve_step_no_power(idx, s_val, st) ==
    LET K_next == st.K_t + s_val
        modulus == Shl1(K_next + 1)
        rhs == (-(3 * st.c_t + Shl1(st.K_t)) + Shl1(K_next)) % modulus
        inv == PowNegMod(3, 1, modulus)
    IN  [K_t |-> K_next, c_t |-> 3 * st.c_t + Shl1(st.K_t),
         r_mod |-> (inv * rhs) % modulus]

solve_step(idx, s_val, st) ==
    LET K_next == st.K_t + s_val
        modulus == Shl1(K_next + 1)
        rhs == (-(3 * st.c_t + Shl1(st.K_t)) + Shl1(K_next)) % modulus
        inv == PowNegMod(3, idx + 1, modulus)
    IN  [K_t |-> K_next, c_t |-> 3 * st.c_t + Shl1(st.K_t),
         r_mod |-> (inv * rhs) % modulus]

RECURSIVE solve_loop(_, _, _)
solve_loop(p, idx, st) ==
    IF idx >= Len(p) THEN st
    ELSE solve_loop(p, idx + 1, solve_step(idx, p[idx + 1], st))

solve_residue(p) ==
    LET st == solve_loop(p, 0, [K_t |-> 0, c_t |-> 0, r_mod |-> 0])
    IN  <<st.r_mod, st.K_t>>

\* the loop of record_from_pattern that rebuilds c_j
RECURSIVE affine_offset(_, _, _, _)
affine_offset(p, i, c_j, K_t) ==
    IF i > Len(p) THEN c_j
    ELSE affine_offset(p, i + 1, 3 * c_j + Shl1(K_t), K_t + p[i])

\* the filter of record_from_pattern
window_rejected_loose(three_pow, two_pow) == three_pow >= 2 * two_pow
window_rejected(three_pow, two_pow) == three_pow >= two_pow

\* None is <<>>, a record is <<WindowRecord>>
record_from_pattern(p) ==
    LET sol == solve_residue(p)
        r_mod == sol[1]
        K == sol[2]
        j == Len(p)
        three_pow == 3 ^ j
        two_pow == Shl1(K)
    IN  IF window_rejected(three_pow, two_pow) THEN <<>>
        ELSE LET c_j == affine_offset(p, 1, 0, 0)
                 A == Fraction(three_pow, two_pow)
                 B == Fraction(c_j, two_pow)
                 N0 == FracDiv(B, FracOneMinus(A))
             IN  << [residue |-> r_mod, exact_residue |-> r_mod, j |-> j,
                     K |-> K, pattern |-> p, A |-> A, B |-> B, N0 |-> N0] >>

\* the number of lifts project_residues enumerates
projection_copies_half(modulus_power, K) == Shl1(modulus_power - (K + 1)) \div 2
projection_copies(modulus_power, K) == Shl1(modulus_power - (K + 1))

project_residues(rec, modulus_power) ==
    LET modulus == Shl1(modulus_power)
        window_modulus == Shl1(rec.K + 1)
    IN  IF window_modulus >= modulus
        THEN << [rec EXCEPT !.residue = rec.residue % modulus] >>
        ELSE LET stride == window_modulus
                 copies == projection_copies(modulus_power, rec.K)
                 candidate(offset) == rec.residue + offset * stride
                 kept == { o \in 0..(copies - 1) : candidate(o) % 2 = 1 }
                 \* the o-th kept offset, in the order of range(copies)
                 nth(k) == CHOOSE o \in kept :
                               Cardinality({ q \in kept : q < o }) = k - 1
             IN  [k \in 1..Cardinality(kept) |->
                     [rec EXCEPT !.residue = candidate(nth(k)) % modulus]]

\* WindowRecord.to_row; the column target_residue_mod_<modulus> is "residue"
to_row_modulus_K(rec) == PyStr(Shl1(rec.K))
to_row_modulus(rec) == PyStr(Shl1(rec.K + 1))

to_row(rec) ==
    [residue |-> PyStr(rec.residue),
     exact_residue_modulus |-> to_row_modulus(rec),
     exact_residue |-> PyStr(rec.exact_residue),
     j |-> PyStr(rec.j),
     K |-> PyStr(rec.K),
     s_vec |-> json_dumps(rec.pattern),
     A |-> format_fraction(rec.A),
     B |-> format_fraction(rec.B),
     N0 |-> format_fraction(rec.N0)]

---------------------------------------------------------------------------
(* validator.py: validate_windows *)

\* the per-step congruence loop of validate_windows; t is enumerate's index
RECURSIVE congruence_walk(_, _, _, _, _)
congruence_walk(p, t, K_t, c_t, reduced_residue) ==
    IF t >= Len(p) THEN [ok |-> TRUE, K_t |-> K_t, c_t |-> c_t]
    ELSE LET s_val == p[t + 1]
             K_next == K_t + s_val
             modulus == Shl1(K_next + 1)
             lhs == (PowMod(3, t + 1, modulus) * (reduced_residue % modulus)
                       + 3 * c_t + Shl1(K_t)) % modulus
             expected == Shl1(K_next)
         IN  IF lhs # expected
             THEN [ok |-> FALSE, K_t |-> K_t, c_t |-> c_t]
             ELSE congruence_walk(p, t + 1, K_next, 3 * c_t + Shl1(K_t),
                                  reduced_residue)

\* the body of the row loop of validate_windows: kind is "ok" or the check
\* that raised; the other fields are what an accepted row contributes
check_window_row(row) ==
    LET residue == PyInt(row.residue)
        j == PyInt(row.j)
        K == PyInt(row.K)
        p == json_loads(row.s_vec)
        exact_modulus == PyInt(row.exact_residue_modulus)
        exact_residue == PyInt(row.exact_residue)
        walk == congruence_walk(p, 0, 0, 0, exact_residue)
        three_pow == 3 ^ j
        two_pow == Shl1(K)
        recorded_A == parse_fraction(row.A)
        recorded_B == parse_fraction(row.B)
        recorded_N0 == parse_fraction(row.N0)
        expected_A == Fraction(three_pow, two_pow)
        expected_B == Fraction(walk.c_t, two_pow)
        expected_N0 == FracDiv(expected_B, FracOneMinus(expected_A))
        none == [num |-> 0, den |-> 1]
        raise(kind) == [kind |-> kind, residue |-> residue, j |-> j, K |-> K,
                        N0 |-> none]
    IN  IF residue % 2 = 0 THEN raise("residue must be odd")
        ELSE IF exact_modulus # Shl1(K + 1) THEN raise("exact modulus mismatch")
        ELSE IF Len(p) # j THEN raise("length mismatch")
        ELSE IF ~walk.ok THEN raise("congruence failed")
        ELSE IF walk.K_t # K THEN raise("cumulative K mismatch")
        ELSE IF FracGEOne(expected_A) THEN raise("expected A >= 1")
        ELSE IF recorded_A # expected_A \/ recorded_B # expected_B
             THEN raise("affine parameters mismatch")
        ELSE IF recorded_N0 # expected_N0 THEN raise("N0 mismatch")
        ELSE [kind |-> "ok", residue |-> residue, j |-> j, K |-> K,
              N0 |-> expected_N0]

\* validator state before the first row
v_initial ==
    [idx |-> 0, window_residues |-> {}, thresholds |-> <<>>, max_j |-> 0,
     max_K |-> 0, max_depth |-> 0, records |-> <<>>]

NoFile == [exists |-> FALSE, rows |-> <<>>]
\* enumerate_patterns has not been called
NoCall == [length |-> 0, total |-> 0, max_part |-> 0]
NoStats == [exists |-> FALSE]
NoSummary == [exists |-> FALSE]
NoFunnelOut ==
    [raised |-> FALSE, residue |-> 0, idx |-> 0, funnels |-> <<>>,
     histogram |-> <<>>]

\* where an aborting window row leaves the validator
window_row_failure_pc_soft == "v_windows"
window_row_failure_pc == "v_raised"

\* one iteration of "for idx, row in enumerate(reader, start=1)" of
\* validate_windows
ValidateWindowsRow ==
    /\ pc = "v_windows"
    /\ v.idx < Len(windows_csv)
    /\ LET idx == v.idx + 1
           res == check_window_row(windows_csv[idx])
       IN  /\ examined' = Append(examined, <<"windows", idx>>)
           /\ IF res.kind # "ok"
              THEN /\ verror' = <<[file |-> "windows", row |-> idx,
                                   kind |-> res.kind]>>
                   /\ pc' = window_row_failure_pc
                   /\ v' = [v EXCEPT !.idx = idx]
              ELSE /\ v' = [v EXCEPT
                              !.idx = idx,
                              !.window_residues = @ \cup {res.residue},
                              !.thresholds = Append(@, res.N0),
                              !.max_j = Max(@, res.j),
                              !.max_K = Max(@, res.K)]
                   /\ UNCHANGED <<verror, pc>>
    /\ UNCHANGED <<call, frames, yielded, descended, stats_json, config, pattern, solved, record, projected, windows_csv,
                   funnels_csv, hist_json, summary_json, window_set,
                   funnel_out, tampered>>

\* validate_windows returns (thresholds, window_residues, max_j, max_K)
ValidateWindowsReturn(next) ==
    /\ pc = "v_windows"
    /\ v.idx = Len(windows_csv)
    /\ pc' = next
    /\ v' = [v EXCEPT !.idx = 0]
    /\ UNCHANGED <<call, frames, yielded, descended, stats_json, config, pattern, solved, record, projected, windows_csv,
                   funnels_csv, hist_json, summary_json, window_set,
                   funnel_out, verror, examined, tampered>>

---------------------------------------------------------------------------
(* The window stage on one pattern, followed by validate_windows *)

InitWin ==
    /\ pc = "pattern"
    /\ pattern \in Patterns
    /\ config \in [modulus_power : 1..MaxM, funnel_depth : {0}]
    /\ solved = <<>>
    /\ record = <<>>
    /\ projected = <<>>
    /\ windows_csv = <<>>
    /\ stats_json = NoStats
    /\ funnels_csv = NoFile
    /\ hist_json = NoFile
    /\ summary_json = NoSummary
    /\ window_set = {}
    /\ funnel_out = NoFunnelOut
    /\ v = v_initial
    /\ verror = <<>>
    /\ examined = <<>>
    /\ tampered = FALSE
    /\ call = NoCall
    /\ frames = <<>>
    /\ yielded = <<>>
    /\ descended = {}

\* base_record = record_from_pattern(pattern); None ends the pattern
RecordFromPattern ==
    /\ pc = "pattern"
    /\ solved' = solve_residue(pattern)
    /\ record' = record_from_pattern(pattern)
    /\ pc' = IF record' = <<>> THEN "none" ELSE "record"
    /\ UNCHANGED <<call, frames, yielded, descended, stats_json, config, pattern, projected, windows_csv, funnels_csv,
                   hist_json, summary_json, window_set, funnel_out, v, verror,
                   examined, tampered>>

\* projected = project_residues(base_record, config.modulus_power)
ProjectResidues ==
    /\ pc = "record"
    /\ projected' = project_residues(record[1], config.modulus_power)
    /\ pc' = "projected"
    /\ UNCHANGED <<call, frames, yielded, descended, stats_json, config, pattern, solved, record, windows_csv, funnels_csv,
                   hist_json, summary_json, window_set, funnel_out, v, verror,
                   examined, tampered>>

\* records.sort(key=residue) (stable)
RECURSIVE sort_by_residue(_)
sort_by_residue(recs) ==
    IF recs = <<>> THEN <<>>
    ELSE LET i == CHOOSE k \in 1..Len(recs) :
                     /\ \A m \in 1..Len(recs) : recs[k].residue <= recs[m].residue
                     /\ \A m \in 1..(k - 1) : recs[m].residue # recs[k].residue
             rest == [m \in 1..(Len(recs) - 1) |->
                         IF m < i THEN recs[m] ELSE recs[m + 1]]
         IN  <<recs[i]>> \o sort_by_residue(rest)

\* the rows generate_windows writes for a list of records
write_window_rows(recs) ==
    LET sorted == sort_by_residue(recs)
    IN  [i \in 1..Len(sorted) |-> to_row(sorted[i])]

WriteWindowRows ==
    /\ pc = "projected"
    /\ windows_csv' = write_window_rows(projected)
    /\ pc' = "written"
    /\ UNCHANGED <<call, frames, yielded, descended, stats_json, config, pattern, solved, record, projected, funnels_csv,
                   hist_json, summary_json, window_set, funnel_out, v, verror,
                   examined, tampered>>

\* the edits of one field of a generated row that a hand-edited (or corrupted)
\* windows.csv may carry; every edited field still parses
WindowRowEdits(row, modulus_power) ==
    LET modulus == Shl1(modulus_power)
        residue == PyInt(row.residue)
        K == PyInt(row.K)
        j == PyInt(row.j)
        r == PyInt(row.exact_residue)
        p == json_loads(row.s_vec)
    IN  { [row EXCEPT !.residue = PyStr((residue + d) % modulus)] :
              d \in {1, 2, Shl1(K + 1)} }
        \cup { [row EXCEPT !.exact_residue = PyStr(r + d)] :
              d \in {2, Shl1(K), Shl1(K + 1), -Shl1(K + 1)} }
        \cup { [row EXCEPT !.K = PyStr(K + 1)],
               [row EXCEPT !.K = PyStr(K + 1),
                           !.exact_residue_modulus = PyStr(Shl1(K + 2))],
               [row EXCEPT !.j = PyStr(j + 1)],
               [row EXCEPT !.exact_residue_modulus = PyStr(Shl1(K))],
               [row EXCEPT !.A = row.B],
               [row EXCEPT !.B = row.N0],
               [row EXCEPT !.N0 = row.A],
               [row EXCEPT !.s_vec = json_dumps([p EXCEPT ![1] = @ + 1])],
               [row EXCEPT !.s_vec =
                   json_dumps([i \in 1..Len(p) |-> p[Len(p) + 1 - i]])] }

\* windows.csv is edited between the generator and the validator
TamperWindowRow ==
    /\ pc = "written"
    /\ \E i \in 1..Len(windows_csv) :
         \E row \in WindowRowEdits(windows_csv[i], config.modulus_power) :
            /\ row # windows_csv[i]
            /\ windows_csv' = [windows_csv EXCEPT ![i] = row]
    /\ tampered' = TRUE
    /\ pc' = "v_windows"
    /\ UNCHANGED <<call, frames, yielded, descended, stats_json, config, pattern, solved, record, projected, funnels_csv,
                   hist_json, summary_json, window_set, funnel_out, v, verror,
                   examined>>

\* validate_windows(windows_csv, modulus_power) is called on the file as written
StartValidateWindows ==
    /\ pc = "written"
    /\ pc' = "v_windows"
    /\ UNCHANGED <<call, frames, yielded, descended, stats_json, config, pattern, solved, record, projected, windows_csv,
                   funnels_csv, hist_json, summary_json, window_set,
                   funnel_out, v, verror, examined, tampered>>

NextWin ==
    \/ RecordFromPattern
    \/ ProjectResidues
    \/ WriteWindowRows
    \/ TamperWindowRow
    \/ StartValidateWindows
    \/ ValidateWindowsRow
    \/ ValidateWindowsReturn("v_returned")

SpecWin == InitWin /\ [][NextWin]_vars

---------------------------------------------------------------------------
(* Properties of the window stage (SpecWin) *)

\* the recurrences of the window definition, written out from t = 0:
\* K_0 = 0, K_t = K_{t-1} + s_t ; c_0 = 0, c_t = 3 c_{t-1} + 2^{K_{t-1}}
RECURSIVE PrefixK(_, _)
PrefixK(p, t) == IF t = 0 THEN 0 ELSE PrefixK(p, t - 1) + p[t]

RECURSIVE PrefixC(_, _)
PrefixC(p, t) ==
    IF t = 0 THEN 0 ELSE 3 * PrefixC(p, t - 1) + 2 ^ PrefixK(p, t - 1)

\* 3^t x + 3 c_{t-1} + 2^{K_{t-1}} = 2^{K_t}  (mod 2^{K_t + 1})
PrefixCongruence(p, t, x) ==
    ((3 ^ t) * x + 3 * PrefixC(p, t - 1) + 2 ^ PrefixK(p, t - 1))
        % (2 ^ (PrefixK(p, t) + 1)) = 2 ^ PrefixK(p, t)

\* the records of `projected`, as the generator orders them
SortedProjected == sort_by_residue(projected)

\* C1: every row the generator writes for a pattern (any modulus_power >= 1)
\* is accepted by validate_windows: the validator never raises on an unedited
\* file, it examines every row, and what it re-derives from the stored text
\* (residues, thresholds N0 through format_fraction / parse_fraction, j, K)
\* is what the generator computed.
C1_GeneratorValidatorAgreement ==
    (~tampered /\ pc \in {"v_windows", "v_raised", "v_returned"}) =>
        /\ pc # "v_raised"
        /\ verror = <<>>
        /\ \A i \in 1..v.idx :
              /\ check_window_row(windows_csv[i]).kind = "ok"
              /\ v.thresholds[i] = SortedProjected[i].N0
              /\ parse_fraction(windows_csv[i].A) = SortedProjected[i].A
              /\ parse_fraction(windows_csv[i].B) = SortedProjected[i].B
              /\ PyInt(windows_csv[i].exact_residue_modulus)
                    = 2 ^ (SortedProjected[i].K + 1)
              /\ PyInt(windows_csv[i].exact_residue) = record[1].exact_residue
        /\ pc = "v_returned" =>
              /\ Len(v.thresholds) = Len(projected)
              /\ v.window_residues
                    = { projected[i].residue : i \in 1..Len(projected) }
              /\ v.max_j = record[1].j
              /\ v.max_K = record[1].K

\* C1 witness: an unedited file of several rows with a non-integer threshold
\* has been accepted
C1_Witness ==
    /\ pc = "v_returned"
    /\ ~tampered
    /\ Len(windows_csv) >= 2
    /\ record[1].N0.den # 1

\* C2: solve_residue returns (r, K) with K the sum of the parts, r odd,
\* 0 <= r < 2^(K+1), and r is the one value of that range satisfying the
\* congruence of every prefix length t in 1..j.
C2_ResidueSolvesEveryPrefix ==
    pc \in {"record", "none"} =>
        LET r == solved[1]
            K == solved[2]
            j == Len(pattern)
        IN  /\ K = SumSeq(pattern)
            /\ 0 <= r /\ r < 2 ^ (K + 1)
            /\ r % 2 = 1
            /\ { x \in 0..(2 ^ (K + 1) - 1) :
                    \A t \in 1..j : PrefixCongruence(pattern, t, x) } = {r}

\* C2 witness: a three-part pattern whose final residue differs from the
\* residues the loop held (and overwrote) after the first and second part
C2_Witness ==
    /\ pc = "record"
    /\ Len(pattern) = 3
    /\ solved[1] # solve_residue(SubSeq(pattern, 1, 1))[1]
    /\ solved[1] # solve_residue(SubSeq(pattern, 1, 2))[1]

\* C3: record_from_pattern returns None exactly when 3^j >= 2^K; otherwise
\* A = 3^j / 2^K with 0 < A < 1, B = c_j / 2^K, N0 (1 - A) = B with 1 - A # 0,
\* all in lowest terms; [1] is rejected with residue 3 mod 4, [2] gives
\* residue 1 mod 8, A = 3/4, B = 1/4, N0 = 1.
C3_WindowValidityFilter ==
    pc \in {"record", "none"} =>
        LET j == Len(pattern)
            K == SumSeq(pattern)
        IN  /\ (record = <<>>) <=> (3 ^ j >= 2 ^ K)
            /\ (pc = "none") <=> (record = <<>>)
            /\ record # <<>> =>
                 LET A == record[1].A
                     B == record[1].B
                     N0 == record[1].N0
                 IN  /\ A.num * (2 ^ K) = A.den * (3 ^ j)
                     /\ 0 < A.num /\ A.num < A.den
                     /\ B.num * (2 ^ K) = B.den * PrefixC(pattern, j)
                     /\ A.den - A.num # 0
                     /\ N0.num * (A.den - A.num) * B.den
                           = B.num * A.den * N0.den
                     /\ \A f \in {A, B, N0} :
                           f.den > 0 /\ Gcd(Abs(f.num), f.den) = 1
                     /\ record[1].j = j /\ record[1].K = K
                     /\ record[1].pattern = pattern
                     /\ record[1].exact_residue = solved[1]
            /\ pattern = <<1>> => (record = <<>> /\ solved = <<3, 1>>)
            /\ pattern = <<2>> =>
                 /\ record # <<>>
                 /\ record[1].exact_residue = 1 /\ record[1].K = 2
                 /\ record[1].A = [num |-> 3, den |-> 4]
                 /\ record[1].B = [num |-> 1, den |-> 4]
                 /\ record[1].N0 = [num |-> 1, den |-> 1]

\* C3 witness: a record with a non-integer threshold has been returned
C3_Witness ==
    /\ pc = "record"
    /\ Len(pattern) >= 2
    /\ record[1].N0.den # 1

\* the residues of a list of records
ResidueList(recs) == [i \in 1..Len(recs) |-> recs[i].residue]
NoDuplicates(s) == \A a, b \in 1..Len(s) : a # b => s[a] # s[b]

\* C4: project_residues returns, when 2^(K+1) < 2^modulus_power, exactly the
\* odd integers of [0, 2^modulus_power) congruent to exact_residue modulo
\* 2^(K+1), each once (2^(modulus_power-K-1) records, no lift discarded);
\* otherwise one record with residue = exact_residue mod 2^modulus_power, odd;
\* no other field differs from the input record.
C4_CosetCompleteness ==
    pc = "projected" =>
        LET rec == record[1]
            M == config.modulus_power
            res == ResidueList(projected)
        IN  /\ IF 2 ^ (rec.K + 1) < 2 ^ M
               THEN /\ NoDuplicates(res)
                    /\ { res[i] : i \in 1..Len(res) }
                          = { x \in 0..(2 ^ M - 1) :
                                 /\ x % 2 = 1
                                 /\ x % (2 ^ (rec.K + 1)) = rec.exact_residue }
                    /\ Len(res) = 2 ^ (M - rec.K - 1)
               ELSE /\ Len(res) = 1
                    /\ res[1] = rec.exact_residue % (2 ^ M)
                    /\ res[1] % 2 = 1
            /\ \A i \in 1..Len(projected) :
                  [projected[i] EXCEPT !.residue = rec.residue] = rec

\* C4 witness: a record has been lifted to four residues
C4_Witness ==
    /\ pc = "projected"
    /\ Len(projected) >= 4
    /\ 2 ^ (record[1].K + 1) < 2 ^ config.modulus_power

\* C8 (as claimed): every row validate_windows accepts stores the solution
\* in [0, 2^(K+1)) of its pattern's congruences as exact_residue, and a
\* projected residue congruent to it modulo min(2^(K+1), 2^modulus_power).
C8_AcceptedRowsAreProjections ==
    pc = "v_returned" =>
        \A i \in 1..Len(windows_csv) :
            LET row == windows_csv[i]
                sol == solve_residue(json_loads(row.s_vec))
                m == Min(2 ^ (sol[2] + 1), 2 ^ config.modulus_power)
            IN  /\ PyInt(row.exact_residue) = sol[1]
                /\ PyInt(row.residue) % m = sol[1] % m

---------------------------------------------------------------------------
(* funnels.py *)

\* (value & -value).bit_length() - 1 : the number of trailing zero bits
RECURSIVE trailing_zeros(_)
trailing_zeros(value) ==
    IF value % 2 = 0 THEN 1 + trailing_zeros(value \div 2) ELSE 0

accelerated_step(residue, modulus) ==
    LET value == 3 * residue + 1
        shift == trailing_zeros(value)
    IN  (value \div Shl1(shift)) % modulus

\* read_window_residues: the residue column of every row
read_window_residues(rows) == { PyInt(rows[i].residue) : i \in 1..Len(rows) }

\* the n-th value (n from 0) of range(1, modulus, 2)
funnel_residue_from_3(n) == 3 + 2 * n
funnel_residue(n) == 1 + 2 * n

\* the depth loop of funnel_lengths from `depth` on: the length found, or -1
\* for None
RECURSIVE funnel_search_late(_, _, _, _, _)
funnel_search_late(current, depth, W, modulus, funnel_depth) ==
    IF depth > funnel_depth THEN -1
    ELSE IF accelerated_step(current, modulus) \in W THEN depth
    ELSE funnel_search_late(accelerated_step(current, modulus), depth + 1, W,
                            modulus, funnel_depth)

RECURSIVE funnel_search(_, _, _, _, _)
funnel_search(current, depth, W, modulus, funnel_depth) ==
    IF depth > funnel_depth THEN -1
    ELSE IF current \in W THEN depth
    ELSE funnel_search(accelerated_step(current, modulus), depth + 1, W,
                       modulus, funnel_depth)

\* the length funnel_lengths finds for one residue: current = residue, then
\* the loop over range(funnel_depth + 1)
funnel_length_from_one(residue, W, modulus, funnel_depth) ==
    funnel_search(residue, 1, W, modulus, funnel_depth)

funnel_length(residue, W, modulus, funnel_depth) ==
    funnel_search(residue, 0, W, modulus, funnel_depth)

\* where funnel_lengths goes when a residue has no length
funnel_unreached_pc_skip == "f_lengths"
funnel_unreached_pc == "f_raised"

\* the sets drawn as window residues: odd residues below the modulus, as the
\* window generator writes them
OddResidues(modulus) == { x \in 1..(modulus - 1) : x % 2 = 1 }

WindowSets(modulus) ==
    { S \in SUBSET OddResidues(modulus) : Cardinality(S) <= MaxWin }

\* a set of integers as the ascending list of its elements
RECURSIVE Ascending(_)
Ascending(S) ==
    IF S = {} THEN <<>>
    ELSE LET m == CHOOSE x \in S : \A y \in S : x <= y
         IN  <<m>> \o Ascending(S \ {m})

InitFun ==
    /\ pc = "f_read"
    /\ config \in [modulus_power : 1..MaxFunM, funnel_depth : 0..MaxDepth]
    /\ \E S \in WindowSets(Shl1(config.modulus_power)) :
          windows_csv = [i \in 1..Cardinality(S) |->
                            [residue |-> PyStr(Ascending(S)[i])]]
    /\ pattern = <<>>
    /\ solved = <<>>
    /\ record = <<>>
    /\ projected = <<>>
    /\ stats_json = NoStats
    /\ funnels_csv = NoFile
    /\ hist_json = NoFile
    /\ summary_json = NoSummary
    /\ window_set = {}
    /\ funnel_out = NoFunnelOut
    /\ v = v_initial
    /\ verror = <<>>
    /\ examined = <<>>
    /\ tampered = FALSE
    /\ call = NoCall
    /\ frames = <<>>
    /\ yielded = <<>>
    /\ descended = {}

\* main: window_residues = read_window_residues(windows_csv, config.modulus),
\* then funnel_lengths sets up its locals
ReadWindowResidues ==
    /\ pc = "f_read"
    /\ window_set' = read_window_residues(windows_csv)
    /\ funnel_out' = [NoFunnelOut EXCEPT
                        !.histogram = [d \in 0..config.funnel_depth |-> 0]]
    /\ pc' = "f_lengths"
    /\ UNCHANGED <<call, frames, yielded, descended, stats_json, config, pattern, solved, record, projected, windows_csv,
                   funnels_csv, hist_json, summary_json, v, verror, examined,
                   tampered>>

\* one iteration of "for idx, residue in enumerate(range(1, modulus, 2))"
FunnelResidue ==
    /\ pc = "f_lengths"
    /\ funnel_residue(funnel_out.idx) < Shl1(config.modulus_power)
    /\ LET residue == funnel_residue(funnel_out.idx)
           length == funnel_length(residue, window_set,
                                   Shl1(config.modulus_power),
                                   config.funnel_depth)
       IN  IF length = -1
           THEN /\ funnel_out' = [funnel_out EXCEPT !.raised = TRUE,
                                                    !.residue = residue,
                                                    !.idx = @ + 1]
                /\ pc' = funnel_unreached_pc
           ELSE /\ funnel_out' = [funnel_out EXCEPT
                                    !.idx = @ + 1,
                                    !.funnels = Append(@, <<residue, length>>),
                                    !.histogram[length] = @ + 1]
                /\ pc' = "f_lengths"
    /\ UNCHANGED <<call, frames, yielded, descended, stats_json, config, pattern, solved, record, projected, windows_csv,
                   funnels_csv, hist_json, summary_json, window_set, v,
                   verror, examined, tampered>>

\* funnel_lengths returns (funnels, histogram)
FunnelLengthsReturn ==
    /\ pc = "f_lengths"
    /\ funnel_residue(funnel_out.idx) >= Shl1(config.modulus_power)
    /\ pc' = "f_write"
    /\ UNCHANGED <<call, frames, yielded, descended, stats_json, config, pattern, solved, record, projected, windows_csv,
                   funnels_csv, hist_json, summary_json, window_set,
                   funnel_out, v, verror, examined, tampered>>

\* write_funnels(records, output_path, modulus)
write_funnels(records) ==
    [exists |-> TRUE,
     rows |-> [i \in 1..Len(records) |->
                  [residue |-> PyStr(records[i][1]),
                   min_funnel_length |-> PyStr(records[i][2])]]]

WriteFunnels ==
    /\ pc = "f_write"
    /\ funnels_csv' = write_funnels(funnel_out.funnels)
    /\ pc' = "f_hist"
    /\ UNCHANGED <<call, frames, yielded, descended, stats_json, config, pattern, solved, record, projected, windows_csv,
                   hist_json, summary_json, window_set, funnel_out, v, verror,
                   examined, tampered>>

\* json.dump(dict(sorted(histogram.items()))): the lengths that occurred,
\* ascending, with their counts
write_histogram(histogram) ==
    LET keys == Ascending({ d \in DOMAIN histogram : histogram[d] > 0 })
    IN  [exists |-> TRUE,
         rows |-> [i \in 1..Len(keys) |->
                      [length |-> PyStr(keys[i]), count |-> histogram[keys[i]]]]]

WriteHistogram ==
    /\ pc = "f_hist"
    /\ hist_json' = write_histogram(funnel_out.histogram)
    /\ pc' = "f_done"
    /\ UNCHANGED <<call, frames, yielded, descended, stats_json, config, pattern, solved, record, projected, windows_csv,
                   funnels_csv, summary_json, window_set, funnel_out, v,
                   verror, examined, tampered>>

---------------------------------------------------------------------------
(* validator.py: validate_funnels *)

\* validator.accelerated_step
validator_accelerated_step(value, modulus) ==
    LET tmp == 3 * value + 1
        shift == trailing_zeros(tmp)
    IN  (tmp \div Shl1(shift)) % modulus

\* "for depth in range(length)": "early" when a value before the last lies in
\* the window set, else the value after the loop
RECURSIVE funnel_replay(_, _, _, _, _)
funnel_replay(current, depth, length, W, modulus) ==
    IF depth >= length THEN [early |-> FALSE, current |-> current]
    ELSE IF current \in W THEN [early |-> TRUE, current |-> current]
    ELSE funnel_replay(validator_accelerated_step(current, modulus), depth + 1,
                       length, W, modulus)

\* the body of the row loop of validate_funnels
check_funnel_row(row, W, modulus) ==
    LET residue == PyInt(row.residue)
        length == PyInt(row.min_funnel_length)
        replay == funnel_replay(residue, 0, length, W, modulus)
        result(kind) == [kind |-> kind, residue |-> residue, length |-> length]
    IN  IF length = 0 /\ residue \notin W
        THEN result("claims length 0 but is not a window")
        ELSE IF replay.early THEN result("hits window early")
        ELSE IF replay.current \notin W THEN result("fails to hit window")
        ELSE result("ok")

\* where an aborting funnel row leaves the validator
funnel_row_failure_pc == "v_raised"

\* one iteration of "for idx, row in enumerate(reader, start=1)" of
\* validate_funnels
ValidateFunnelsRow ==
    /\ pc = "v_funnels"
    /\ funnels_csv.exists
    /\ v.idx < Len(funnels_csv.rows)
    /\ LET idx == v.idx + 1
           res == check_funnel_row(funnels_csv.rows[idx], v.window_residues,
                                   Shl1(config.modulus_power))
       IN  /\ examined' = Append(examined, <<"funnels", idx>>)
           /\ IF res.kind # "ok"
              THEN /\ verror' = <<[file |-> "funnels", row |-> idx,
                                   kind |-> res.kind]>>
                   /\ pc' = funnel_row_failure_pc
                   /\ v' = [v EXCEPT !.idx = idx]
              ELSE /\ v' = [v EXCEPT
                              !.idx = idx,
                              !.records = Append(@, <<res.residue, res.length>>),
                              !.max_depth = Max(@, res.length)]
                   /\ UNCHANGED <<verror, pc>>
    /\ UNCHANGED <<call, frames, yielded, descended, stats_json, config, pattern, solved, record, projected, windows_csv,
                   funnels_csv, hist_json, summary_json, window_set,
                   funnel_out, tampered>>

\* validate_funnels returns (max_depth, records)
ValidateFunnelsReturn(next) ==
    /\ pc = "v_funnels"
    /\ funnels_csv.exists
    /\ v.idx = Len(funnels_csv.rows)
    /\ pc' = next
    /\ v' = [v EXCEPT !.idx = 0]
    /\ UNCHANGED <<call, frames, yielded, descended, stats_json, config, pattern, solved, record, projected, windows_csv,
                   funnels_csv, hist_json, summary_json, window_set,
                   funnel_out, verror, examined, tampered>>

\* the rows (residue, length) a hand-edited funnels.csv may carry in place of
\* a generated row: another length, or another residue
FunnelRowEdits(row, modulus, funnel_depth) ==
    { [row EXCEPT !.min_funnel_length = PyStr(l)] :
          l \in (-1)..(funnel_depth + 1) }
    \cup { [row EXCEPT !.residue = PyStr(r)] : r \in 0..(modulus - 1) }

\* funnels.csv is edited between the funnel generator and the validator; after
\* an aborted funnel run a one-row file about the failing residue is supplied
TamperFunnelRow ==
    /\ \/ /\ pc = "f_done"
          /\ \E i \in 1..Len(funnels_csv.rows) :
               \E row \in FunnelRowEdits(funnels_csv.rows[i],
                                         Shl1(config.modulus_power),
                                         config.funnel_depth) :
                  /\ row # funnels_csv.rows[i]
                  /\ funnels_csv' = [funnels_csv EXCEPT !.rows[i] = row]
       \/ /\ pc = "f_raised"
          /\ \E l \in (-1)..(config.funnel_depth + 1) :
                funnels_csv' = write_funnels(<< <<funnel_out.residue, l>> >>)
    /\ tampered' = TRUE
    /\ v' = [v_initial EXCEPT !.window_residues = window_set]
    /\ pc' = "v_funnels"
    /\ UNCHANGED <<call, frames, yielded, descended, stats_json, config, pattern, solved, record, projected, windows_csv,
                   hist_json, summary_json, window_set, funnel_out, verror,
                   examined>>

\* validate_funnels(funnels_csv, window_residues, modulus) is called on the
\* file as written, with the window set of the same windows.csv
StartValidateFunnels ==
    /\ pc = "f_done"
    /\ v' = [v_initial EXCEPT !.window_residues = window_set]
    /\ pc' = "v_funnels"
    /\ UNCHANGED <<call, frames, yielded, descended, stats_json, config, pattern, solved, record, projected, windows_csv,
                   funnels_csv, hist_json, summary_json, window_set,
                   funnel_out, verror, examined, tampered>>

NextFun ==
    \/ ReadWindowResidues
    \/ FunnelResidue
    \/ FunnelLengthsReturn
    \/ WriteFunnels
    \/ WriteHistogram
    \/ TamperFunnelRow
    \/ StartValidateFunnels
    \/ ValidateFunnelsRow
    \/ ValidateFunnelsReturn("v_returned")

SpecFun == InitFun /\ [][NextFun]_vars

---------------------------------------------------------------------------
(* Properties of the funnel stage (SpecFun) *)

\* d applications of accelerated_step to x
RECURSIVE AccIter(_, _, _)
AccIter(x, d, modulus) ==
    IF d = 0 THEN x ELSE accelerated_step(AccIter(x, d - 1, modulus), modulus)

FunModulus == 2 ^ config.modulus_power

\* l is the least d >= 0 with d applications of accelerated_step landing in W
IsLeastDepth(r, l, W, modulus) ==
    /\ l >= 0
    /\ AccIter(r, l, modulus) \in W
    /\ \A d \in 0..(l - 1) : AccIter(r, d, modulus) \notin W

\* the odd residues none of whose iterates at depths 0..funnel_depth is a window
Unreachable ==
    { r \in OddResidues(FunModulus) :
         \A d \in 0..config.funnel_depth :
            AccIter(r, d, FunModulus) \notin window_set }

InFunnelStage ==
    pc \in {"f_lengths", "f_raised", "f_write", "f_hist", "f_done"}

\* C5: every record (residue, d) of funnel_lengths has 0 <= d <= funnel_depth,
\* d applications of accelerated_step to residue give a window residue, and
\* no smaller number of applications does.
C5_FunnelMinimality ==
    InFunnelStage =>
        \A i \in 1..Len(funnel_out.funnels) :
            LET r == funnel_out.funnels[i][1]
                d == funnel_out.funnels[i][2]
            IN  /\ 0 <= d /\ d <= config.funnel_depth
                /\ IsLeastDepth(r, d, window_set, FunModulus)

\* C5 witness: a returned table holds a residue that needs three steps
C5_Witness ==
    /\ pc = "f_write"
    /\ \E i \in 1..Len(funnel_out.funnels) : funnel_out.funnels[i][2] >= 3

\* C6: when funnel_lengths returns, the residues with a record, in order, are
\* exactly the odd residues of [1, 2^modulus_power) ascending (so each has one
\* record, with a finite length), and together with the window residues they
\* make up the odd residues.
C6_Coverage ==
    pc \in {"f_write", "f_hist", "f_done"} =>
        LET recs == funnel_out.funnels
            recorded == { recs[i][1] : i \in 1..Len(recs) }
        IN  /\ [i \in 1..Len(recs) |-> recs[i][1]]
                  = Ascending(OddResidues(FunModulus))
            /\ \A i \in 1..Len(recs) : recs[i][2] \in 0..config.funnel_depth
            /\ window_set \cup recorded = OddResidues(FunModulus)
            /\ \A a, b \in 1..Len(recs) : a < b => recs[a][1] < recs[b][1]

\* C6 witness: a complete table over eight odd residues, not all of them
\* windows
C6_Witness ==
    /\ pc = "f_done"
    /\ Len(funnel_out.funnels) = 8
    /\ Cardinality(window_set) <= 2

\* C7: if some odd residue reaches no window within depths 0..funnel_depth,
\* funnel_lengths never returns, main writes neither funnels.csv nor the
\* histogram, the loop never gets past the smallest such residue, and the
\* error names that residue; funnel_lengths raises in no other case.
C7_InsufficientDepthAborts ==
    InFunnelStage =>
        LET U == Unreachable
            least == CHOOSE r \in U : \A q \in U : r <= q
        IN  /\ U # {} =>
                 /\ pc \in {"f_lengths", "f_raised"}
                 /\ ~funnels_csv.exists
                 /\ ~hist_json.exists
                 /\ \A i \in 1..Len(funnel_out.funnels) :
                       funnel_out.funnels[i][1] < least
                 /\ funnel_out.idx <= Len(funnel_out.funnels) + 1
            /\ pc = "f_raised" =>
                 /\ U # {}
                 /\ funnel_out.raised
                 /\ funnel_out.residue = least
            /\ pc # "f_raised" => ~funnel_out.raised

\* C7 witness: the run aborted at a residue above 1, dropping the records
\* already collected
C7_Witness ==
    /\ pc = "f_raised"
    /\ funnel_out.residue > 1
    /\ Len(funnel_out.funnels) >= 1
    /\ window_set # {}

\* the rows of funnels.csv validate_funnels has accepted so far
FunnelRowAccepted(i) ==
    i < Len(examined) \/ (i = Len(examined) /\ pc # "v_raised")

\* C9 (as claimed): validate_funnels accepts a row (residue, length) if and
\* only if length is the least d >= 0 with d applications of accelerated_step
\* landing in the window set; an unedited table of funnel_lengths is accepted,
\* and the depth returned is the maximum length of the rows.
C9_FunnelRecheckExact ==
    pc \in {"v_funnels", "v_raised", "v_returned"} =>
        /\ \A i \in 1..Len(examined) :
              LET r == PyInt(funnels_csv.rows[i].residue)
                  l == PyInt(funnels_csv.rows[i].min_funnel_length)
              IN  FunnelRowAccepted(i)
                     <=> IsLeastDepth(r, l, v.window_residues, FunModulus)
        /\ ~tampered => pc # "v_raised"
        /\ (pc = "v_returned" /\ funnels_csv.rows # <<>>) =>
              \E i \in 1..Len(funnels_csv.rows) :
                 /\ v.max_depth = PyInt(funnels_csv.rows[i].min_funnel_length)
                 /\ \A k \in 1..Len(funnels_csv.rows) :
                       PyInt(funnels_csv.rows[k].min_funnel_length)
                          <= v.max_depth

---------------------------------------------------------------------------
(* windows.py: enumerate_patterns, generate_windows *)

RECURSIVE FlattenSeq(_)
FlattenSeq(ss) == IF ss = <<>> THEN <<>> ELSE ss[1] \o FlattenSeq(Tail(ss))

\* the bounds of "for part in range(min_part, max_part_allowed + 1)"
min_part(remaining, slots, max_part) ==
    Max(1, remaining - max_part * (slots - 1))

max_part_allowed_loose(remaining, slots, max_part) == max_part

max_part_allowed(remaining, slots, max_part) ==
    Min(max_part, remaining - (slots - 1))

\* backtrack(prefix, remaining, slots) and its "for part in range(...)" loop
\* from `part` on; the result lists the yielded patterns in order
RECURSIVE backtrack(_, _, _, _)
RECURSIVE backtrack_parts(_, _, _, _, _, _)
backtrack(prefix, remaining, slots, max_part) ==
    IF slots = 1
    THEN IF 1 <= remaining /\ remaining <= max_part
         THEN <<Append(prefix, remaining)>>
         ELSE <<>>
    ELSE backtrack_parts(prefix, remaining, slots, max_part,
                         min_part(remaining, slots, max_part),
                         max_part_allowed(remaining, slots, max_part))

backtrack_parts(prefix, remaining, slots, max_part, part, last) ==
    IF part > last THEN <<>>
    ELSE backtrack(Append(prefix, part), remaining - part, slots - 1, max_part)
         \o backtrack_parts(prefix, remaining, slots, max_part, part + 1, last)

enumerate_patterns(length, total, max_part) ==
    IF length = 1
    THEN IF 1 <= total /\ total <= max_part THEN << <<total>> >> ELSE <<>>
    ELSE backtrack(<<>>, total, length, max_part)

\* math.ceil(j * math.log2(3)): 3^j is no power of two, so this is the least
\* K with 2^K > 3^j
k_min(j) == CHOOSE K \in 0..(2 * j) : 2 ^ K > 3 ^ j /\ 2 ^ (K - 1) < 3 ^ j

\* the records generate_windows collects, in loop order (j, then K, then
\* pattern), before the sort
collect_records(cfg) ==
    LET for_pattern(p) ==
            LET base_record == record_from_pattern(p)
            IN  IF base_record = <<>> THEN <<>>
                ELSE project_residues(base_record[1], cfg.modulus_power)
        for_K(j, K) ==
            LET ps == enumerate_patterns(j, K, cfg.max_valuation)
            IN  FlattenSeq([i \in 1..Len(ps) |-> for_pattern(ps[i])])
        for_j(j) ==
            FlattenSeq([i \in 1..(cfg.delta_k + 1) |->
                           for_K(j, k_min(j) + i - 1)])
    IN  FlattenSeq([j \in 1..cfg.max_window_length |-> for_j(j)])

\* stats_payload of generate_windows; coverage_fraction is kept as the pair
\* it is the quotient of
window_stats(cfg, recs) ==
    LET modulus == Shl1(cfg.modulus_power)
        coverage == { recs[i].residue : i \in 1..Len(recs) }
        count(f(_), x) == Cardinality({ i \in 1..Len(recs) : f(recs[i]) = x })
        rec_j(r) == r.j
        rec_K(r) == r.K
    IN  [exists |-> TRUE,
         modulus |-> modulus,
         odd_residue_count |-> modulus \div 2,
         covered_residue_count |-> Cardinality(coverage),
         coverage_fraction |-> <<Cardinality(coverage), modulus \div 2>>,
         window_rows |-> Len(recs),
         counts_by_j |-> [j \in { recs[i].j : i \in 1..Len(recs) }
                             |-> count(rec_j, j)],
         counts_by_K |-> [K \in { recs[i].K : i \in 1..Len(recs) }
                             |-> count(rec_K, K)]]

---------------------------------------------------------------------------
(* validator.py: summarize, main *)

\* max(thresholds) of a non-empty list
max_fraction(ts) ==
    ts[CHOOSE i \in 1..Len(ts) :
          /\ \A k \in 1..Len(ts) : FracGE(ts[i], ts[k])
          /\ \A k \in 1..(i - 1) : ~FracGE(ts[k], ts[i])]

\* math.ceil of a Fraction: -(-numerator // denominator)
ceil_fraction(f) == -((-f.num) \div f.den)

\* str(Fraction)
str_fraction(f) ==
    IF f.den = 1 THEN PyStr(f.num) ELSE PyStr(f.num) \o <<"/">> \o PyStr(f.den)

\* csv_row_count: the lines of the file (header and rows) less the header
csv_row_count(rows) == Max((1 + Len(rows)) - 1, 0)

\* a file's SHA-256 digest stands for the content it is computed from
summarize(windows_rows, funnels_rows, thresholds, j_max, L, modulus) ==
    LET max_threshold == max_fraction(thresholds)
        N0_star == ceil_fraction(Fraction(Shl1(L) * max_threshold.num,
                                          max_threshold.den))
    IN  [exists |-> TRUE,
         windows_sha256 |-> windows_rows,
         funnels_sha256 |-> funnels_rows,
         window_rows |-> csv_row_count(windows_rows),
         funnel_rows |-> csv_row_count(funnels_rows),
         j_max |-> j_max,
         L |-> L,
         J_star |-> j_max + L,
         max_window_threshold |-> str_fraction(max_threshold),
         N0_star |-> N0_star,
         modulus |-> modulus]

---------------------------------------------------------------------------
(* A run of the three stages: windows.main, funnels.main, validator.main *)

Init ==
    /\ pc = "g_windows"
    /\ config \in [modulus_power : 1..MaxPipeM,
                   max_window_length : 1..MaxPipeJ,
                   max_valuation : 1..MaxVal,
                   delta_k : 0..MaxDeltaK,
                   funnel_depth : 0..MaxDepth]
    /\ pattern = <<>>
    /\ solved = <<>>
    /\ record = <<>>
    /\ projected = <<>>
    /\ windows_csv = <<>>
    /\ stats_json = NoStats
    /\ funnels_csv = NoFile
    /\ hist_json = NoFile
    /\ summary_json = NoSummary
    /\ window_set = {}
    /\ funnel_out = NoFunnelOut
    /\ v = v_initial
    /\ verror = <<>>
    /\ examined = <<>>
    /\ tampered = FALSE
    /\ call = NoCall
    /\ frames = <<>>
    /\ yielded = <<>>
    /\ descended = {}

\* generate_windows(config, output_path)
GenerateWindows ==
    /\ pc = "g_windows"
    /\ LET records == collect_records(config)
       IN  /\ windows_csv' = write_window_rows(records)
           /\ stats_json' = window_stats(config, records)
    /\ pc' = "f_read"
    /\ UNCHANGED <<call, frames, yielded, descended, config, pattern, solved, record, projected, funnels_csv,
                   hist_json, summary_json, window_set, funnel_out, v, verror,
                   examined, tampered>>

\* the edits of a generated windows.csv row drawn for a whole run: an even
\* residue, another odd residue, an exact residue off by two, a wrong A
PipelineWindowEdits(row, modulus_power) ==
    LET modulus == Shl1(modulus_power)
        residue == PyInt(row.residue)
        r == PyInt(row.exact_residue)
    IN  << [row EXCEPT !.residue = PyStr((residue + 1) % modulus)],
           [row EXCEPT !.residue = PyStr((residue + 2) % modulus)],
           [row EXCEPT !.exact_residue = PyStr(r + 2)],
           [row EXCEPT !.A = row.B] >>

\* the edits of a generated funnels.csv row drawn for a whole run
PipelineFunnelEdits(row) ==
    LET l == PyInt(row.min_funnel_length)
    IN  << [row EXCEPT !.min_funnel_length = PyStr(l + 1)],
           [row EXCEPT !.min_funnel_length = PyStr(l - 1)] >>

\* the tables are edited between the generators and the validator: one row,
\* or the same field of every row from some row on; after an aborted funnel
\* run an empty funnels.csv (header only) may be supplied
TamperTables ==
    /\ \/ /\ pc = "f_done"
          /\ \E k \in 1..4, i \in 1..Len(windows_csv), tail \in BOOLEAN :
                windows_csv' =
                   [m \in 1..Len(windows_csv) |->
                       IF m = i \/ (tail /\ m > i)
                       THEN PipelineWindowEdits(windows_csv[m],
                                                config.modulus_power)[k]
                       ELSE windows_csv[m]]
          /\ UNCHANGED funnels_csv
       \/ /\ pc = "f_done"
          /\ \E k \in 1..2, i \in 1..Len(funnels_csv.rows), tail \in BOOLEAN :
                funnels_csv' =
                   [funnels_csv EXCEPT !.rows =
                       [m \in 1..Len(funnels_csv.rows) |->
                           IF m = i \/ (tail /\ m > i)
                           THEN PipelineFunnelEdits(funnels_csv.rows[m])[k]
                           ELSE funnels_csv.rows[m]]]
          /\ UNCHANGED windows_csv
       \/ /\ pc = "f_raised"
          /\ funnels_csv' = write_funnels(<<>>)
          /\ UNCHANGED windows_csv
    /\ tampered' = TRUE
    /\ pc' = "v_windows"
    /\ UNCHANGED <<call, frames, yielded, descended, stats_json, config, pattern, solved, record, projected,
                   hist_json, summary_json, window_set, funnel_out, v, verror,
                   examined>>

\* validator.main starts on the artifacts as they are (after an aborted funnel
\* run there is no funnels.csv)
StartValidator ==
    /\ pc \in {"f_done", "f_raised"}
    /\ pc' = "v_windows"
    /\ UNCHANGED <<call, frames, yielded, descended, stats_json, config, pattern, solved, record, projected, windows_csv,
                   funnels_csv, hist_json, summary_json, window_set,
                   funnel_out, v, verror, examined, tampered>>

\* validate_funnels: funnels_csv.open() on a missing file
ValidateFunnelsMissing ==
    /\ pc = "v_funnels"
    /\ ~funnels_csv.exists
    /\ verror' = <<[file |-> "funnels", row |-> 0, kind |-> "FileNotFoundError"]>>
    /\ pc' = "v_raised"
    /\ UNCHANGED <<call, frames, yielded, descended, stats_json, config, pattern, solved, record, projected, windows_csv,
                   funnels_csv, hist_json, summary_json, window_set,
                   funnel_out, v, examined, tampered>>

\* summary = summarize(...); json.dump(summary, handle); max() of an empty
\* thresholds list raises
WriteSummary ==
    /\ pc = "v_summary"
    /\ IF v.thresholds = <<>>
       THEN /\ verror' = <<[file |-> "summary", row |-> 0,
                            kind |-> "max() arg is an empty sequence"]>>
            /\ pc' = "v_raised"
            /\ UNCHANGED summary_json
       ELSE /\ summary_json' = summarize(windows_csv, funnels_csv.rows,
                                         v.thresholds, v.max_j, v.max_depth,
                                         Shl1(config.modulus_power))
            /\ pc' = "v_done"
            /\ UNCHANGED verror
    /\ UNCHANGED <<call, frames, yielded, descended, stats_json, config, pattern, solved, record, projected, windows_csv,
                   funnels_csv, hist_json, window_set, funnel_out, v,
                   examined, tampered>>

Next ==
    \/ GenerateWindows
    \/ ReadWindowResidues
    \/ FunnelResidue
    \/ FunnelLengthsReturn
    \/ WriteFunnels
    \/ WriteHistogram
    \/ TamperTables
    \/ StartValidator
    \/ ValidateWindowsRow
    \/ ValidateWindowsReturn("v_funnels")
    \/ ValidateFunnelsRow
    \/ ValidateFunnelsReturn("v_summary")
    \/ ValidateFunnelsMissing
    \/ WriteSummary

Spec == Init /\ [][Next]_vars

---------------------------------------------------------------------------
(* Properties of the validator stage (Spec) *)

\* the rows of both tables in the order validator.main must examine them
ValidationOrder ==
    [i \in 1..Len(windows_csv) |-> <<"windows", i>>]
        \o [i \in 1..Len(funnels_csv.rows) |-> <<"funnels", i>>]

\* the window-residue column of windows.csv as a set
WindowColumn == { PyInt(windows_csv[i].residue) : i \in 1..Len(windows_csv) }

\* whether the row named by an entry of `examined` passes every check
RowPasses(e) ==
    IF e[1] = "windows"
    THEN check_window_row(windows_csv[e[2]]).kind = "ok"
    ELSE check_funnel_row(funnels_csv.rows[e[2]], WindowColumn,
                          2 ^ config.modulus_power).kind = "ok"

InValidator ==
    pc \in {"v_windows", "v_funnels", "v_summary", "v_done", "v_raised"}

\* C10: validator.main examines the window rows in file order, then the
\* funnel rows in file order, then writes the summary; the first row failing
\* a check raises at once with its 1-based index, no row is examined after
\* it, and summary.json is written only when every row of both tables passed.
C10_NoPartialValidation ==
    InValidator =>
        LET n == Len(examined)
        IN  /\ n <= Len(ValidationOrder)
            /\ examined = SubSeq(ValidationOrder, 1, n)
            /\ \A i \in 1..(n - 1) : RowPasses(examined[i])
            /\ (n > 0 /\ ~RowPasses(examined[n])) =>
                  /\ pc = "v_raised"
                  /\ verror # <<>>
                  /\ verror[1].file = examined[n][1]
                  /\ verror[1].row = examined[n][2]
                  /\ verror[1].row >= 1
            /\ (pc = "v_raised" /\ verror[1].row # 0) =>
                  (n > 0 /\ ~RowPasses(examined[n]))
            /\ pc = "v_funnels" => n >= Len(windows_csv)
            /\ pc \in {"v_summary", "v_done"} =>
                  /\ n = Len(ValidationOrder)
                  /\ \A i \in 1..n : RowPasses(examined[i])
                  /\ verror = <<>>
            /\ summary_json.exists <=> pc = "v_done"

\* C10 witness: the validator raised at a funnel row after the first, with a
\* later row that would fail too left unexamined
C10_Witness ==
    /\ pc = "v_raised"
    /\ verror[1].file = "funnels"
    /\ verror[1].row >= 2
    /\ \E k \in (verror[1].row + 1)..Len(funnels_csv.rows) :
          ~RowPasses(<<"funnels", k>>)
    /\ ~summary_json.exists

---------------------------------------------------------------------------
(* Properties of summary.json (Spec) *)

\* the largest element of a non-empty set of integers
MaxOfSet(S) == CHOOSE x \in S : \A y \in S : x >= y

\* the j column and the N0 column of windows.csv, the min_funnel_length
\* column of funnels.csv, as the validator reads them
WindowJs == { PyInt(windows_csv[i].j) : i \in 1..Len(windows_csv) }
WindowN0(i) == parse_fraction(windows_csv[i].N0)
FunnelLengthColumn ==
    { PyInt(funnels_csv.rows[i].min_funnel_length) :
         i \in 1..Len(funnels_csv.rows) }

\* the largest N0 of a non-empty windows.csv
MaxWindowN0 ==
    WindowN0(CHOOSE i \in 1..Len(windows_csv) :
                \A k \in 1..Len(windows_csv) : FracGE(WindowN0(i), WindowN0(k)))

\* validator.main wrote summary.json for a windows.csv with at least one row
SummaryWritten == pc = "v_done" /\ Len(windows_csv) >= 1

\* the fields of summary.json derived from j_max, a funnel depth L and the
\* largest N0; N0_star is the least integer n with n >= 2^L * max N0
SummaryDerivedFrom(L) ==
    LET m == MaxWindowN0
    IN  /\ summary_json.j_max = MaxOfSet(WindowJs)
        /\ summary_json.L = L
        /\ summary_json.J_star = MaxOfSet(WindowJs) + L
        /\ parse_fraction(summary_json.max_window_threshold) = m
        /\ summary_json.N0_star * m.den >= (2 ^ L) * m.num
        /\ (summary_json.N0_star - 1) * m.den < (2 ^ L) * m.num

\* C11: for a validated windows.csv with at least one row and a validated
\* funnels.csv, summary.json has j_max = the largest j of the window rows,
\* L = the largest min_funnel_length of the funnel rows (0 when there are
\* none), J_star = j_max + L, max_window_threshold = the largest N0 and
\* N0_star = the least integer n with n >= 2^L * max N0.
C11_SummaryDerivation ==
    SummaryWritten =>
        SummaryDerivedFrom(IF FunnelLengthColumn = {} THEN 0
                           ELSE MaxOfSet(FunnelLengthColumn))

\* the summary as the code derives it: L is the largest of 0 and the lengths
SummaryWithClampedL ==
    SummaryWritten =>
        SummaryDerivedFrom(MaxOfSet(FunnelLengthColumn \cup {0}))

---------------------------------------------------------------------------
(* windows.py: enumerate_patterns as the generator runs, one backtrack frame
   at a time.  A frame is a suspended call backtrack(prefix, remaining,
   slots) with `part` the next value of its for loop. *)

InitEnum ==
    /\ pc = "e_call"
    /\ call \in [length : 1..MaxEnumLength, total : 1..MaxEnumTotal,
                 max_part : 1..MaxEnumPart]
    /\ config = [max_valuation |-> call.max_part]
    /\ frames = <<>>
    /\ yielded = <<>>
    /\ descended = {}
    /\ pattern = <<>>
    /\ solved = <<>>
    /\ record = <<>>
    /\ projected = <<>>
    /\ windows_csv = <<>>
    /\ stats_json = NoStats
    /\ funnels_csv = NoFile
    /\ hist_json = NoFile
    /\ summary_json = NoSummary
    /\ window_set = {}
    /\ funnel_out = NoFunnelOut
    /\ v = v_initial
    /\ verror = <<>>
    /\ examined = <<>>
    /\ tampered = FALSE

\* the frame of a call backtrack(prefix, remaining, slots) on entry
backtrack_frame(prefix, remaining, slots, max_part) ==
    [prefix |-> prefix, remaining |-> remaining, slots |-> slots,
     part |-> min_part(remaining, slots, max_part)]

enum_other_vars ==
    <<config, pattern, solved, record, projected, windows_csv, stats_json,
      funnels_csv, hist_json, summary_json, window_set, funnel_out, v, verror,
      examined, tampered>>

\* enumerate_patterns(length, total, max_part) with length == 1
EnumerateSingle ==
    /\ pc = "e_call"
    /\ call.length = 1
    /\ yielded' = IF 1 <= call.total /\ call.total <= call.max_part
                  THEN << <<call.total>> >>
                  ELSE <<>>
    /\ pc' = "e_done"
    /\ UNCHANGED <<call, frames, descended>>
    /\ UNCHANGED enum_other_vars

\* yield from backtrack([], total, length)
EnumerateBacktrack ==
    /\ pc = "e_call"
    /\ call.length # 1
    /\ frames' = <<backtrack_frame(<<>>, call.total, call.length,
                                   call.max_part)>>
    /\ pc' = "e_run"
    /\ UNCHANGED <<call, yielded, descended>>
    /\ UNCHANGED enum_other_vars

\* backtrack with slots == 1: yield prefix + [remaining] if it fits, return
BacktrackLeaf ==
    /\ pc = "e_run"
    /\ frames # <<>>
    /\ LET f == frames[Len(frames)]
       IN  /\ f.slots = 1
           /\ yielded' = IF 1 <= f.remaining /\ f.remaining <= call.max_part
                         THEN Append(yielded, Append(f.prefix, f.remaining))
                         ELSE yielded
           /\ frames' = SubSeq(frames, 1, Len(frames) - 1)
    /\ UNCHANGED <<pc, call, descended>>
    /\ UNCHANGED enum_other_vars

\* one iteration of the for loop: yield from backtrack(prefix + [part],
\* remaining - part, slots - 1)
BacktrackDescend ==
    /\ pc = "e_run"
    /\ frames # <<>>
    /\ LET n == Len(frames)
           f == frames[n]
       IN  /\ f.slots # 1
           /\ f.part <= max_part_allowed(f.remaining, f.slots, call.max_part)
           /\ frames' = Append([frames EXCEPT ![n].part = f.part + 1],
                               backtrack_frame(Append(f.prefix, f.part),
                                               f.remaining - f.part,
                                               f.slots - 1, call.max_part))
           /\ descended' = descended \cup {Append(f.prefix, f.part)}
    /\ UNCHANGED <<pc, call, yielded>>
    /\ UNCHANGED enum_other_vars

\* the for loop of a frame is exhausted: the call returns
BacktrackReturn ==
    /\ pc = "e_run"
    /\ frames # <<>>
    /\ LET f == frames[Len(frames)]
       IN  /\ f.slots # 1
           /\ f.part > max_part_allowed(f.remaining, f.slots, call.max_part)
           /\ frames' = SubSeq(frames, 1, Len(frames) - 1)
    /\ UNCHANGED <<pc, call, yielded, descended>>
    /\ UNCHANGED enum_other_vars

\* the outermost backtrack call has returned: the generator is exhausted
EnumerateReturn ==
    /\ pc = "e_run"
    /\ frames = <<>>
    /\ pc' = "e_done"
    /\ UNCHANGED <<call, frames, yielded, descended>>
    /\ UNCHANGED enum_other_vars

NextEnum ==
    \/ EnumerateSingle
    \/ EnumerateBacktrack
    \/ BacktrackLeaf
    \/ BacktrackDescend
    \/ BacktrackReturn
    \/ EnumerateReturn

SpecEnum == InitEnum /\ [][NextEnum]_vars

---------------------------------------------------------------------------
(* Properties of enumerate_patterns (SpecEnum) *)

\* the sequences of `length` integers in 1..max_part summing to `total`
Compositions(length, total, max_part) ==
    { c \in [1..length -> 1..max_part] : SumSeq(c) = total }

\* a comes before b in lexicographic order (sequences of one length)
LexLess(a, b) ==
    \E i \in 1..Len(a) :
        /\ a[i] < b[i]
        /\ \A k \in 1..(i - 1) : a[k] = b[k]

IsPrefixOf(p, c) == Len(p) <= Len(c) /\ SubSeq(c, 1, Len(p)) = p

CallCompositions == Compositions(call.length, call.total, call.max_part)

\* C12: enumerate_patterns(length, total, max_part) yields exactly the
\* sequences of `length` integers in [1, max_part] summing to `total`, each
\* once and in lexicographic order (none when total < length or
\* total > length * max_part), and every prefix backtrack recurses into
\* extends to one of them.
C12_PatternEnumeration ==
    /\ pc \in {"e_run", "e_done"} =>
          /\ \A i \in 1..Len(yielded) : yielded[i] \in CallCompositions
          /\ \A i \in 1..(Len(yielded) - 1) :
                LexLess(yielded[i], yielded[i + 1])
          /\ \A p \in descended :
                \E c \in CallCompositions : IsPrefixOf(p, c)
    /\ pc = "e_done" =>
          /\ { yielded[i] : i \in 1..Len(yielded) } = CallCompositions
          /\ Len(yielded) = Cardinality(CallCompositions)
          /\ (call.total < call.length
                \/ call.total > call.length * call.max_part) => yielded = <<>>

\* C12 witness: a finished enumeration of three or more compositions of
\* three parts in which the part range of the outermost call was cut from
\* below
C12_Witness ==
    /\ pc = "e_done"
    /\ call.length = 3
    /\ Len(yielded) >= 3
    /\ min_part(call.total, call.length, call.max_part) > 1
    /\ descended # {}

\* the generator run frame by frame yields the list the recursive operator
\* used by generate_windows computes
EnumerationAgrees ==
    pc = "e_done" =>
        yielded = enumerate_patterns(call.length, call.total, call.max_part)

---------------------------------------------------------------------------
(* Which residues funnel_lengths records (SpecFun) *)

\* the residues that have a record so far
RecordedResidues ==
    { funnel_out.funnels[i][1] : i \in 1..Len(funnel_out.funnels) }

\* C13 as stated: every record (residue, length) of funnel_lengths has a
\* residue outside the window-residue set; window residues are skipped.
C13_WindowResiduesSkipped ==
    InFunnelStage =>
        \A i \in 1..Len(funnel_out.funnels) :
            funnel_out.funnels[i][1] \notin window_set

\* C13 amended: funnel_lengths skips no odd residue.  A record has length 0
\* exactly when its residue is a window residue, and when funnel_lengths
\* returns every window residue has its record of length 0.
C13_WindowResiduesRecordedAtZero ==
    /\ InFunnelStage =>
          \A i \in 1..Len(funnel_out.funnels) :
              (funnel_out.funnels[i][1] \in window_set)
                  <=> (funnel_out.funnels[i][2] = 0)
    /\ pc \in {"f_write", "f_hist", "f_done"} =>
          /\ window_set \subseteq RecordedResidues
          /\ \A r \in window_set :
                \E i \in 1..Len(funnel_out.funnels) :
                    funnel_out.funnels[i] = <<r, 0>>

\* C13 witness: a written table with two window residues recorded at length
\* 0 next to residues of positive length
C13_Witness ==
    /\ pc = "f_done"
    /\ Cardinality(window_set) >= 2
    /\ \A r \in window_set : r \in RecordedResidues
    /\ \E i \in 1..Len(funnel_out.funnels) : funnel_out.funnels[i][2] >= 1
    /\ \E i \in 1..Len(funnels_csv.rows) :
          /\ PyInt(funnels_csv.rows[i].residue) \in window_set
          /\ PyInt(funnels_csv.rows[i].min_funnel_length) = 0

====
